---- MODULE Spec2Model ----
(***************************************************************************)
(* Model of the segmentation-and-recomposition engine of music-recomposer: *)
(*   StyleComposer.segment_and_score, StyleComposer.compose                *)
(*   (src/src/style_composer.py) and AudioGenerator._transform_audio,      *)
(*   AudioGenerator.generate (src/src/audio_generator.py).                 *)
(*                                                                         *)
(* Real numbers are fixed-point: a segment length is a numerator over      *)
(* LDen, the random.random() draw, pitch steps and stretch rates are       *)
(* hundredths.  A waveform is a sequence of samples.  The output of a      *)
(* librosa primitive is a waveform of the length librosa gives it, whose   *)
(* samples are terms naming the primitive, its argument, its input and     *)
(* the position, so that two outputs are equal only when they come from    *)
(* the same call on the same input.                                        *)
(***************************************************************************)
EXTENDS Integers, Sequences, FiniteSets, TLC

VARIABLES
    sr,              \* self.sr
    y,               \* segment_and_score: the input waveform
    segment_length,  \* segment_and_score: segment_length, numerator over LDen
    segPc,           \* segment_and_score: "ready" | "done"
    segResult,       \* segment_and_score: what the call produced
    segments,        \* compose: the phrase pool passed in (main: all_segments)
    num_phrases,     \* compose: num_phrases of the current call
    variation_strength, \* compose: variation_strength of the current call
    cpc,             \* compose: "idle" | "loop" | "returned" | "raised"
    it,              \* compose: iterations of the for loop started so far
    new_audio,       \* compose: the list new_audio
    result,          \* compose: what the call produced
    dspLog,          \* compose: the librosa calls made by the current call
    calls,           \* compose: number of compose calls made so far
    listing,         \* generate: os.listdir(input_dir), entry -> content
    pending,         \* generate: entries the for loop has not reached yet
    bpc,             \* generate: "idle" | "loop" | "done" | "raised"
    written,         \* generate: output directory, name -> waveform
    bLog,            \* generate: per entry, the librosa calls made for it
    bErr,            \* generate: the exception that ended the call
    bFault,          \* generate: the collaborator call that failed, and its file
    audio_data,      \* main: the waveforms am.load_all() returned
    segIdx,          \* main: entries of audio_data segmented so far
    mpc,             \* main: position of the driver
    track,           \* main: the loop variable i of the track loop
    saved,           \* main: the sf.write calls that succeeded, in order
    diag,            \* main: the diagnostic printed before an early return
    frames           \* compose calls running side by side: their local state

segVars == <<y, segment_length, segPc, segResult>>
compVars == <<segments, num_phrases, variation_strength, cpc, it, new_audio,
               result, dspLog, calls>>
batchVars == <<listing, pending, bpc, written, bLog, bErr, bFault>>
mainVars == <<audio_data, segIdx, mpc, track, saved, diag>>
parVars == <<frames>>
vars == <<sr, segVars, compVars, batchVars, mainVars, parVars>>

----------------------------------------------------------------------------
(* Bounds of the model *)

MaxLen == 6          \* longest waveform given to segment_and_score
MaxCalls == 2        \* compose calls in one behaviour
MaxPhrases == 2      \* largest num_phrases
MaxSeconds == 4      \* longest waveform (in seconds) segmented into the pool
MaxEntries == 3      \* most entries in the input directory
MaxFiles == 2        \* most waveforms am.load_all() returns to main

LDen == 2            \* segment lengths are multiples of 1/LDen seconds
Samples == {0, 1}
SampleRates == {1, 2}
SegLens == (-2 * LDen) .. (2 * LDen)   \* -2.0 s .. 2.0 s

----------------------------------------------------------------------------
(* Python and numpy primitives *)

\* int(num/den) for den > 0: truncation toward zero
PyInt(num, den) == IF num >= 0 THEN num \div den ELSE -((-num) \div den)

\* floor(num/den) for den > 0
Floor(num, den) == num \div den

\* round(num/den) for num >= 0, den > 0: round half to even
PyRound(num, den) ==
    LET q == num \div den
        r == num % den
    IN  IF 2 * r < den THEN q
        ELSE IF 2 * r > den THEN q + 1
        ELSE IF q % 2 = 0 THEN q ELSE q + 1

\* list(range(start, stop, step)), step # 0
RECURSIVE PyRange(_, _, _)
PyRange(start, stop, step) ==
    IF (step > 0 /\ start < stop) \/ (step < 0 /\ start > stop)
    THEN <<start>> \o PyRange(start + step, stop, step)
    ELSE <<>>

Min(a, b) == IF a < b THEN a ELSE b

\* a[i:j] for 0 <= i, on a sequence indexed from 0 as Python does
PySlice(a, i, j) ==
    LET lo == Min(i, Len(a))
        hi == IF j < 0 THEN Len(a) + j ELSE Min(j, Len(a))
    IN  IF hi <= lo THEN <<>> ELSE SubSeq(a, lo + 1, hi)

\* np.concatenate(list) of one-dimensional arrays
RECURSIVE Concatenate(_)
Concatenate(list) ==
    IF list = <<>> THEN <<>> ELSE Head(list) \o Concatenate(Tail(list))

RECURSIVE SumLen(_)
SumLen(list) ==
    IF list = <<>> THEN 0 ELSE Len(Head(list)) + SumLen(Tail(list))

Returned(v) == [ok |-> TRUE, exc |-> "", val |-> v]
Raised(e) == [ok |-> FALSE, exc |-> e, val |-> <<>>]
NoResult == [ok |-> FALSE, exc |-> "pending", val |-> <<>>]
NoFault == [file |-> <<>>, stage |-> "none"]

----------------------------------------------------------------------------
(* StyleComposer.segment_and_score *)

SamplesPerSeg(len, rate) == PyInt(len * rate, LDen)

SegmentAndScore_NoFilter(a, len, rate) ==
    LET samples_per_seg == SamplesPerSeg(len, rate)
    IN  IF samples_per_seg = 0 THEN Raised("ValueError")
        ELSE Returned([k \in 1 .. Len(PyRange(0, Len(a), samples_per_seg)) |->
                 PySlice(a, PyRange(0, Len(a), samples_per_seg)[k],
                         PyRange(0, Len(a), samples_per_seg)[k] + samples_per_seg)])

SegmentAndScore_Overlap(a, len, rate) ==
    LET samples_per_seg == SamplesPerSeg(len, rate)
        IsFull(seg) == Len(seg) = samples_per_seg
    IN  IF samples_per_seg = 0 THEN Raised("ValueError")
        ELSE LET starts == PyRange(0, Len(a), 1)
                 segs == [k \in 1 .. Len(starts) |->
                            PySlice(a, starts[k], starts[k] + samples_per_seg)]
             IN  Returned(SelectSeq(segs, IsFull))

\* range(0, len(y), 0) raises ValueError; a negative step gives an empty range
SegmentAndScore(a, len, rate) ==
    LET samples_per_seg == SamplesPerSeg(len, rate)
        IsFull(seg) == Len(seg) = samples_per_seg
    IN  IF samples_per_seg = 0 THEN Raised("ValueError")
        ELSE LET starts == PyRange(0, Len(a), samples_per_seg)
                 segs == [k \in 1 .. Len(starts) |->
                            PySlice(a, starts[k], starts[k] + samples_per_seg)]
             IN  Returned(SelectSeq(segs, IsFull))

MainSegLen == 2 * LDen           \* segment_length=2.0 of main.py

Waveforms == UNION {[1 .. n -> Samples] : n \in 0 .. MaxLen}

SegInit ==
    /\ sr \in SampleRates
    /\ y \in Waveforms
    /\ segment_length \in SegLens
    /\ segPc = "ready"
    /\ segResult = NoResult
    /\ segments = <<>>
    /\ num_phrases = 0
    /\ variation_strength = 10
    /\ cpc = "off"
    /\ it = 0
    /\ new_audio = <<>>
    /\ result = NoResult
    /\ dspLog = <<>>
    /\ calls = 0
    /\ listing = {}
    /\ pending = {}
    /\ bpc = "off"
    /\ written = {}
    /\ bLog = <<>>
    /\ bErr = ""
    /\ bFault = NoFault
    /\ audio_data = <<>>
    /\ segIdx = 0
    /\ mpc = "off"
    /\ track = 0
    /\ saved = <<>>
    /\ diag = ""
    /\ frames = <<>>

\* composer.segment_and_score(y, segment_length)
SegmentCall ==
    /\ segPc = "ready"
    /\ segResult' = SegmentAndScore(y, segment_length, sr)
    /\ segPc' = "done"
    /\ UNCHANGED <<sr, y, segment_length>>

----------------------------------------------------------------------------
(* librosa.effects primitives, as far as the callers depend on them *)

Half == 50                       \* the 0.5 of random.random() < 0.5
RandomDraws == {0, 49, 50, 99}   \* random.random(), hundredths
PitchSteps == {-100, 0, 100}     \* random.uniform(-1, 1), hundredths
StretchLo == 95                  \* random.uniform(0.95, 1.05), hundredths
StretchHi == 105
StretchRates == {StretchLo, 100, StretchHi}

\* pitch_shift resamples and then fixes the length to that of its input
PitchShift_NoFixLength(a, rate, n_steps) ==
    [j \in 1 .. PyRound(Len(a) * 100, 100 + (6 * n_steps) \div 100) |->
        [op |-> "pitch_shift", arg |-> n_steps, sr |-> rate, src |-> a, idx |-> j]]

PitchShift(a, rate, n_steps) ==
    [j \in 1 .. Len(a) |->
        [op |-> "pitch_shift", arg |-> n_steps, sr |-> rate, src |-> a, idx |-> j]]

\* time_stretch returns round(len(y) / rate) samples
TimeStretch(a, rate) ==
    [j \in 1 .. PyRound(Len(a) * 100, rate) |->
        [op |-> "time_stretch", arg |-> rate, sr |-> 0, src |-> a, idx |-> j]]

Dsp(c, a) ==
    IF c.op = "pitch_shift" THEN PitchShift(a, sr, c.arg)
    ELSE TimeStretch(a, c.arg)

\* The statements of a transform run in order; the call numbered failAt
\* raises (0: none does), and nothing after it runs.
RECURSIVE RunPlan(_, _, _)
RunPlan(plan, a, failAt) ==
    IF plan = <<>> THEN [ok |-> TRUE, out |-> a, log |-> <<>>]
    ELSE LET c == Head(plan)
             entry(good) == [op |-> c.op, arg |-> c.arg, src |-> a, ok |-> good]
         IN  IF failAt = 1
             THEN [ok |-> FALSE, out |-> <<>>, log |-> <<entry(FALSE)>>]
             ELSE LET rest == RunPlan(Tail(plan), Dsp(c, a), failAt - 1)
                  IN  [ok |-> rest.ok, out |-> rest.out,
                       log |-> <<entry(TRUE)>> \o rest.log]

----------------------------------------------------------------------------
(* StyleComposer.compose *)

PhraseCounts == -1 .. MaxPhrases
DefaultStrength == 10            \* variation_strength=0.1, hundredths
VariationStrengths == {DefaultStrength, 50}
ComposeRates == {6}
Patterns == {0, 1}

Tone(n, pat) == [j \in 1 .. n |-> (j * pat) % 5]

Pools ==
    {SegmentAndScore(Tone(d * rate, pat), MainSegLen, rate).val :
        d \in 0 .. MaxSeconds, rate \in ComposeRates, pat \in Patterns}

\* the body of the if/else of one iteration: the primitive calls it makes
Vary_Both(r, n_steps, rate) ==
    <<[op |-> "pitch_shift", arg |-> n_steps],
      [op |-> "time_stretch", arg |-> rate]>>

Vary(r, n_steps, rate) ==
    IF r < Half THEN <<[op |-> "pitch_shift", arg |-> n_steps]>>
    ELSE <<[op |-> "time_stretch", arg |-> rate]>>

\* the local state of one compose call
NewFrame(k, vs) ==
    [num_phrases |-> k, variation_strength |-> vs, cpc |-> "loop", it |-> 0,
     new_audio |-> <<>>, result |-> NoResult, dspLog |-> <<>>]

IdleFrame ==
    [num_phrases |-> 0, variation_strength |-> DefaultStrength,
     cpc |-> "idle", it |-> 0,
     new_audio |-> <<>>, result |-> NoResult, dspLog |-> <<>>]

CurFrame ==
    [num_phrases |-> num_phrases, variation_strength |-> variation_strength,
     cpc |-> cpc, it |-> it, new_audio |-> new_audio, result |-> result,
     dspLog |-> dspLog]

IterStep_Scaled(f, seg, r, n_steps, rate, failAt) ==
    LET run == RunPlan(Vary(r, (n_steps * f.variation_strength) \div 10,
                            100 + ((rate - 100) * f.variation_strength) \div 10),
                       seg, failAt)
    IN  [f EXCEPT !.it = @ + 1,
                  !.dspLog = @ \o run.log,
                  !.new_audio = IF run.ok THEN Append(@, run.out) ELSE @,
                  !.cpc = IF run.ok THEN @ ELSE "raised",
                  !.result = IF run.ok THEN @ ELSE Raised("TransformError")]

\* lines 77-82 on the chosen phrase seg: transform it and append the output;
\* an exception of the primitive leaves the function
IterStep(f, seg, r, n_steps, rate, failAt) ==
    LET run == RunPlan(Vary(r, n_steps, rate), seg, failAt)
    IN  [f EXCEPT !.it = @ + 1,
                  !.dspLog = @ \o run.log,
                  !.new_audio = IF run.ok THEN Append(@, run.out) ELSE @,
                  !.cpc = IF run.ok THEN @ ELSE "raised",
                  !.result = IF run.ok THEN @ ELSE Raised("TransformError")]

\* line 74 on an empty list: random.choice raises IndexError
EmptyStep(f) ==
    [f EXCEPT !.it = @ + 1, !.cpc = "raised", !.result = Raised("IndexError")]

\* line 84: np.concatenate(new_audio); an empty list raises ValueError
ReturnStep(f) ==
    IF f.new_audio = <<>>
    THEN [f EXCEPT !.cpc = "raised", !.result = Raised("ValueError")]
    ELSE [f EXCEPT !.cpc = "returned",
                   !.result = Returned(Concatenate(f.new_audio))]

ComposeInit ==
    /\ sr \in ComposeRates
    /\ segments \in Pools
    /\ num_phrases = 0
    /\ variation_strength = 10
    /\ cpc = "idle"
    /\ it = 0
    /\ new_audio = <<>>
    /\ result = NoResult
    /\ dspLog = <<>>
    /\ calls = 0
    /\ y = <<>>
    /\ segment_length = MainSegLen
    /\ segPc = "off"
    /\ segResult = NoResult
    /\ listing = {}
    /\ pending = {}
    /\ bpc = "off"
    /\ written = {}
    /\ bLog = <<>>
    /\ bErr = ""
    /\ bFault = NoFault
    /\ audio_data = <<>>
    /\ segIdx = 0
    /\ mpc = "off"
    /\ track = 0
    /\ saved = <<>>
    /\ diag = ""
    /\ frames = <<>>

\* compose(segments, variation_strength, num_phrases): new_audio = []
ComposeCall ==
    /\ cpc \in {"idle", "returned", "raised"}
    /\ calls < MaxCalls
    /\ \E k \in PhraseCounts, vs \in VariationStrengths :
          /\ num_phrases' = k
          /\ variation_strength' = vs
    /\ cpc' = "loop"
    /\ it' = 0
    /\ new_audio' = <<>>
    /\ result' = NoResult
    /\ dspLog' = <<>>
    /\ calls' = calls + 1
    /\ UNCHANGED <<sr, segments>>

IterEffect_Swallow(idx, r, n_steps, rate, failAt) ==
    LET seg == segments[idx]
        run == RunPlan(Vary(r, n_steps, rate), seg, failAt)
    IN  /\ it' = it + 1
        /\ dspLog' = dspLog \o run.log
        /\ IF run.ok
           THEN new_audio' = Append(new_audio, run.out)
           ELSE UNCHANGED new_audio
        /\ UNCHANGED <<cpc, result>>

\* one iteration of the for loop, without its effect on the pool
IterEffect(idx, r, n_steps, rate, failAt) ==
    LET f == IterStep(CurFrame, segments[idx], r, n_steps, rate, failAt)
    IN  /\ it' = f.it
        /\ dspLog' = f.dspLog
        /\ new_audio' = f.new_audio
        /\ cpc' = f.cpc
        /\ result' = f.result

IterBody_Pop(idx, r, n_steps, rate, failAt) ==
    /\ IterEffect(idx, r, n_steps, rate, failAt)
    /\ segments' = SubSeq(segments, 1, idx - 1)
                     \o SubSeq(segments, idx + 1, Len(segments))

IterBody(idx, r, n_steps, rate, failAt) ==
    /\ IterEffect(idx, r, n_steps, rate, failAt)
    /\ UNCHANGED segments

ChoiceFromEmpty_Skip ==
    /\ it' = it + 1
    /\ UNCHANGED <<cpc, result, segments, new_audio, dspLog>>

\* random.choice of an empty sequence raises IndexError
ChoiceFromEmpty ==
    /\ cpc' = EmptyStep(CurFrame).cpc
    /\ result' = EmptyStep(CurFrame).result
    /\ it' = EmptyStep(CurFrame).it
    /\ UNCHANGED <<segments, new_audio, dspLog>>

Choices_NoRepeat(segs) ==
    {i \in 1 .. Len(segs) :
        dspLog = <<>> \/ segs[i] # dspLog[Len(dspLog)].src}

\* random.choice(segments): any position of the list, whatever came before
Choices(segs) == 1 .. Len(segs)

\* for _ in range(num_phrases): one iteration
ComposeIter ==
    /\ cpc = "loop"
    /\ it < num_phrases
    /\ IF segments = <<>>
       THEN ChoiceFromEmpty
       ELSE \E idx \in Choices(segments), r \in RandomDraws :
               \E n_steps \in (IF r < Half THEN PitchSteps ELSE {0}),
                  rate \in (IF r < Half THEN {100} ELSE StretchRates) :
                  \E failAt \in 0 .. Len(Vary(r, n_steps, rate)) :
                     IterBody(idx, r, n_steps, rate, failAt)
    /\ UNCHANGED <<sr, num_phrases, variation_strength, calls>>

ComposeReturn_EmptyOk ==
    /\ cpc = "loop"
    /\ it >= num_phrases
    /\ cpc' = "returned"
    /\ result' = Returned(Concatenate(new_audio))
    /\ UNCHANGED <<sr, segments, num_phrases, variation_strength, it,
                   new_audio, dspLog, calls>>

\* return np.concatenate(new_audio); an empty list raises ValueError
ComposeReturn ==
    /\ cpc = "loop"
    /\ it >= num_phrases
    /\ cpc' = ReturnStep(CurFrame).cpc
    /\ result' = ReturnStep(CurFrame).result
    /\ UNCHANGED <<sr, segments, num_phrases, variation_strength, it,
                   new_audio, dspLog, calls>>

----------------------------------------------------------------------------
(* AudioGenerator._transform_audio and AudioGenerator.generate *)

PitchChoices == {-2, -1, 1, 2}     \* random.choice([-2, -1, 1, 2]), semitones
BatchStretch == {90, 100, 110}     \* random.uniform(0.9, 1.1), hundredths

\* file names are sequences of characters
DotWav == <<".", "w", "a", "v">>
Prefix == <<"g", "e", "n", "e", "r", "a", "t", "e", "d", "_">>
NameA == <<"a", ".", "w", "a", "v">>
NameB == <<"b", ".", "w", "a", "v">>
NameUpper == <<"c", ".", "W", "A", "V">>
NameTxt == <<"n", ".", "t", "x", "t">>
NameShort == <<"w", "a", "v">>
Entries == {NameA, NameB, NameUpper, NameTxt, NameShort}

\* y, _ = librosa.load(input_path, sr=self.sr): the samples of an entry
Content(file) ==
    [j \in 1 .. (IF file = NameB THEN 6 ELSE 5) |->
        [op |-> "load", arg |-> (j * Len(SelectSeq(file, LAMBDA c : c # "a"))) % 7,
         sr |-> sr, src |-> <<>>, idx |-> j]]

LowerChar(c) ==
    CASE c = "W" -> "w"
      [] c = "A" -> "a"
      [] c = "V" -> "v"
      [] OTHER -> c

\* str.lower()
Lower(name) == [j \in 1 .. Len(name) |-> LowerChar(name[j])]

\* str.endswith(suffix)
EndsWith(name, suffix) ==
    /\ Len(name) >= Len(suffix)
    /\ SubSeq(name, Len(name) - Len(suffix) + 1, Len(name)) = suffix

IsWav_CaseSensitive(file) == EndsWith(file, DotWav)

\* file.lower().endswith(".wav")
IsWav(file) == EndsWith(Lower(file), DotWav)

OutName_Fixed(file) == Prefix \o DotWav

\* f"generated_{file}"
OutName(file) == Prefix \o file

TransformAudio_FromOriginal(a, pitch_shift, time_stretch, failAt) ==
    LET shifted == RunPlan(<<[op |-> "pitch_shift", arg |-> pitch_shift]>>, a, failAt)
        stretched == RunPlan(<<[op |-> "time_stretch", arg |-> time_stretch]>>, a,
                             failAt - 1)
    IN  IF shifted.ok
        THEN [ok |-> stretched.ok, out |-> stretched.out,
              log |-> shifted.log \o stretched.log]
        ELSE shifted

\* y_shifted = pitch_shift(y, ...); y_stretched = time_stretch(y_shifted, ...)
TransformAudio(a, pitch_shift, time_stretch, failAt) ==
    RunPlan(<<[op |-> "pitch_shift", arg |-> pitch_shift],
              [op |-> "time_stretch", arg |-> time_stretch]>>, a, failAt)

BatchInit ==
    /\ sr \in ComposeRates
    /\ listing \in {d \in SUBSET Entries : Cardinality(d) <= MaxEntries}
    /\ pending = {}
    /\ bpc = "idle"
    /\ written = {}
    /\ bLog = [f \in listing |-> <<>>]
    /\ bErr = ""
    /\ bFault = NoFault
    /\ y = <<>>
    /\ segment_length = MainSegLen
    /\ segPc = "off"
    /\ segResult = NoResult
    /\ segments = <<>>
    /\ num_phrases = 0
    /\ variation_strength = 10
    /\ cpc = "off"
    /\ it = 0
    /\ new_audio = <<>>
    /\ result = NoResult
    /\ dspLog = <<>>
    /\ calls = 0
    /\ audio_data = <<>>
    /\ segIdx = 0
    /\ mpc = "off"
    /\ track = 0
    /\ saved = <<>>
    /\ diag = ""
    /\ frames = <<>>

\* generate(): for file in os.listdir(self.input_dir)
GenerateCall ==
    /\ bpc = "idle"
    /\ bpc' = "loop"
    /\ pending' = listing
    /\ UNCHANGED <<sr, listing, written, bLog, bErr, bFault>>

ProcessFile_Suppress(file, loadOk, pitch_shift, time_stretch, failAt, writeOk) ==
    LET run == TransformAudio(Content(file), pitch_shift, time_stretch, failAt)
    IN  IF ~loadOk
        THEN /\ bFault' = [file |-> file, stage |-> "load"]
             /\ UNCHANGED <<bpc, bErr, written, bLog>>
        ELSE /\ bLog' = [bLog EXCEPT ![file] = run.log]
             /\ IF ~run.ok
                THEN /\ bFault' = [file |-> file,
                                   stage |-> run.log[Len(run.log)].op]
                     /\ UNCHANGED <<bpc, bErr, written>>
                ELSE IF ~writeOk
                THEN /\ bFault' = [file |-> file, stage |-> "write"]
                     /\ UNCHANGED <<bpc, bErr, written>>
                ELSE /\ written' = {w \in written : w.name # OutName(file)}
                                     \cup {[name |-> OutName(file), data |-> run.out]}
                     /\ UNCHANGED <<bpc, bErr, bFault>>

\* the body of the loop for an entry that passes the .wav test
ProcessFile(file, loadOk, pitch_shift, time_stretch, failAt, writeOk) ==
    LET run == TransformAudio(Content(file), pitch_shift, time_stretch, failAt)
    IN  IF ~loadOk
        THEN /\ bpc' = "raised"
             /\ bErr' = "LoadError"
             /\ bFault' = [file |-> file, stage |-> "load"]
             /\ UNCHANGED <<written, bLog>>
        ELSE /\ bLog' = [bLog EXCEPT ![file] = run.log]
             /\ IF ~run.ok
                THEN /\ bpc' = "raised"
                     /\ bErr' = "TransformError"
                     /\ bFault' = [file |-> file,
                                   stage |-> run.log[Len(run.log)].op]
                     /\ UNCHANGED written
                ELSE IF ~writeOk
                THEN /\ bpc' = "raised"
                     /\ bErr' = "WriteError"
                     /\ bFault' = [file |-> file, stage |-> "write"]
                     /\ UNCHANGED written
                ELSE /\ written' = {w \in written : w.name # OutName(file)}
                                     \cup {[name |-> OutName(file), data |-> run.out]}
                     /\ UNCHANGED <<bpc, bErr, bFault>>

\* one iteration of the loop over the directory entries
GenerateIter ==
    /\ bpc = "loop"
    /\ \E file \in pending :
          /\ pending' = pending \ {file}
          /\ IF IsWav(file)
             THEN \E loadOk \in BOOLEAN, pitch_shift \in PitchChoices,
                     time_stretch \in BatchStretch, failAt \in 0 .. 2,
                     writeOk \in BOOLEAN :
                     ProcessFile(file, loadOk, pitch_shift, time_stretch,
                                 failAt, writeOk)
             ELSE UNCHANGED <<bpc, written, bLog, bErr, bFault>>
    /\ UNCHANGED <<sr, listing>>

\* the loop has reached the end of the listing
GenerateReturn ==
    /\ bpc = "loop"
    /\ pending = {}
    /\ bpc' = "done"
    /\ UNCHANGED <<sr, listing, pending, written, bLog, bErr, bFault>>

----------------------------------------------------------------------------
(* main: the driver *)

NumTracks == 6                   \* for i in range(6)
MainDurations == {1, 5}          \* seconds of audio in a loaded file

\* am.load_all(): the trimmed waveforms of the .wav files, in listing order
AudioLists ==
    UNION {[1 .. n -> {Tone(d * rate, 1) : d \in MainDurations, rate \in ComposeRates}] :
             n \in 0 .. MaxFiles}

TrackPath_Const(i) == <<"style_composed_", 1, ".wav">>

\* f"style_composed_{i + 1}.wav"
TrackPath(i) == <<"style_composed_", i + 1, ".wav">>

MainInit ==
    /\ sr \in ComposeRates
    /\ audio_data = <<>>
    /\ segIdx = 0
    /\ mpc = "start"
    /\ track = 0
    /\ saved = <<>>
    /\ diag = ""
    /\ segments = <<>>
    /\ num_phrases = 0
    /\ variation_strength = DefaultStrength
    /\ cpc = "idle"
    /\ it = 0
    /\ new_audio = <<>>
    /\ result = NoResult
    /\ dspLog = <<>>
    /\ calls = 0
    /\ y = <<>>
    /\ segment_length = MainSegLen
    /\ segPc = "off"
    /\ segResult = NoResult
    /\ listing = {}
    /\ pending = {}
    /\ bpc = "off"
    /\ written = {}
    /\ bLog = <<>>
    /\ bErr = ""
    /\ bFault = NoFault
    /\ frames = <<>>

\* audio_data = am.load_all(); if not audio_data: print, return
MainLoad ==
    /\ mpc = "start"
    /\ \E loadOk \in BOOLEAN, loaded \in AudioLists :
          IF ~loadOk
          THEN /\ mpc' = "raised"
               /\ UNCHANGED <<audio_data, diag>>
          ELSE /\ audio_data' = loaded
               /\ IF loaded = <<>>
                  THEN /\ diag' = "No input audio found"
                       /\ mpc' = "early"
                  ELSE /\ mpc' = "segment"
                       /\ UNCHANGED diag
    /\ UNCHANGED <<sr, segIdx, track, saved, compVars>>

\* for name, y in audio_data: all_segments.extend(segment_and_score(y, 2.0))
MainSegment ==
    /\ mpc = "segment"
    /\ segIdx < Len(audio_data)
    /\ LET res == SegmentAndScore(audio_data[segIdx + 1], MainSegLen, sr)
       IN  IF res.ok
           THEN /\ segments' = segments \o res.val
                /\ segIdx' = segIdx + 1
                /\ UNCHANGED mpc
           ELSE /\ mpc' = "raised"
                /\ UNCHANGED <<segments, segIdx>>
    /\ UNCHANGED <<sr, audio_data, track, saved, diag, num_phrases,
                   variation_strength, cpc, it, new_audio, result, dspLog, calls>>

MainPoolCheck_NoCheck ==
    /\ mpc = "segment"
    /\ segIdx = Len(audio_data)
    /\ mpc' = "tracks"
    /\ UNCHANGED <<sr, audio_data, segIdx, track, saved, diag, compVars>>

\* if not all_segments: print, return
MainPoolCheck ==
    /\ mpc = "segment"
    /\ segIdx = Len(audio_data)
    /\ IF segments = <<>>
       THEN /\ diag' = "No usable segments found"
            /\ mpc' = "early"
       ELSE /\ mpc' = "tracks"
            /\ UNCHANGED diag
    /\ UNCHANGED <<sr, audio_data, segIdx, track, saved, compVars>>

\* new_piece = composer.compose(all_segments, num_phrases=8): entry; the
\* model runs MaxPhrases iterations in place of the 8
MainCompose ==
    /\ mpc = "tracks"
    /\ track < NumTracks
    /\ mpc' = "composing"
    /\ num_phrases' = MaxPhrases
    /\ variation_strength' = DefaultStrength
    /\ cpc' = "loop"
    /\ it' = 0
    /\ new_audio' = <<>>
    /\ result' = NoResult
    /\ dspLog' = <<>>
    /\ calls' = calls + 1
    /\ UNCHANGED <<sr, segments, audio_data, segIdx, track, saved, diag>>

\* sf.write(output_path, new_piece, ...); generated_pieces.append(...);
\* an exception of compose or of sf.write ends main
MainWrite ==
    /\ mpc = "composing"
    /\ cpc \in {"returned", "raised"}
    /\ IF cpc = "raised"
       THEN /\ mpc' = "raised"
            /\ UNCHANGED <<saved, track>>
       ELSE \E writeOk \in BOOLEAN :
               IF writeOk
               THEN /\ saved' = Append(saved, [name |-> TrackPath(track),
                                               call |-> calls])
                    /\ track' = track + 1
                    /\ mpc' = "tracks"
               ELSE /\ mpc' = "raised"
                    /\ UNCHANGED <<saved, track>>
    /\ UNCHANGED <<sr, audio_data, segIdx, diag, compVars>>

\* the track loop is over: the table is printed and main returns
MainFinish ==
    /\ mpc = "tracks"
    /\ track = NumTracks
    /\ mpc' = "done"
    /\ UNCHANGED <<sr, audio_data, segIdx, track, saved, diag, compVars>>

----------------------------------------------------------------------------
(* compose calls side by side on one pool: each call has its own locals *)

Invocations == {1, 2}
ParDraws == {0, Half}            \* random.random(): one draw for each branch
ParPitch == 100                  \* random.uniform(-1, 1)
ParRate == StretchLo             \* random.uniform(0.95, 1.05)
ParPhrases == {1, 2}             \* num_phrases of a call running beside another

\* the next step of a running call: an iteration of the loop, or the return
StepOf(f, pool, idx, r, n_steps, rate, failAt) ==
    IF f.cpc # "loop" THEN f
    ELSE IF f.it < f.num_phrases
    THEN (IF pool = <<>> THEN EmptyStep(f)
          ELSE IterStep(f, pool[idx], r, n_steps, rate, failAt))
    ELSE ReturnStep(f)

ParInit ==
    /\ sr \in ComposeRates
    /\ segments \in Pools
    /\ frames = [c \in Invocations |-> IdleFrame]
    /\ num_phrases = 0
    /\ variation_strength = DefaultStrength
    /\ cpc = "off"
    /\ it = 0
    /\ new_audio = <<>>
    /\ result = NoResult
    /\ dspLog = <<>>
    /\ calls = 0
    /\ y = <<>>
    /\ segment_length = MainSegLen
    /\ segPc = "off"
    /\ segResult = NoResult
    /\ listing = {}
    /\ pending = {}
    /\ bpc = "off"
    /\ written = {}
    /\ bLog = <<>>
    /\ bErr = ""
    /\ bFault = NoFault
    /\ audio_data = <<>>
    /\ segIdx = 0
    /\ mpc = "off"
    /\ track = 0
    /\ saved = <<>>
    /\ diag = ""

\* a host thread calls compose(segments, num_phrases=k)
ParCall(c) ==
    /\ frames[c].cpc = "idle"
    /\ \E k \in ParPhrases :
          frames' = [frames EXCEPT ![c] = NewFrame(k, DefaultStrength)]
    /\ UNCHANGED <<sr, segments>>

ParStepBody_Shared(c, idx, r, n_steps, rate, failAt) ==
    LET f == StepOf(frames[c], segments, idx, r, n_steps, rate, failAt)
    IN  /\ frames' = [d \in Invocations |->
                        IF d = c THEN f
                        ELSE [frames[d] EXCEPT !.new_audio = f.new_audio]]
        /\ UNCHANGED segments

\* a step of call c touches the locals of call c only
ParStepBody(c, idx, r, n_steps, rate, failAt) ==
    /\ frames' = [frames EXCEPT
                    ![c] = StepOf(@, segments, idx, r, n_steps, rate, failAt)]
    /\ UNCHANGED segments

\* the thread of call c runs its next step
ParStep(c) ==
    /\ frames[c].cpc = "loop"
    /\ \E idx \in (IF segments = <<>> THEN {0} ELSE Choices(segments)),
          r \in ParDraws, failAt \in 0 .. 1 :
          ParStepBody(c, idx, r, ParPitch, ParRate, failAt)
    /\ UNCHANGED sr

----------------------------------------------------------------------------
(* two compose calls given the same arguments and the same random draws, *)
(* except for variation_strength                                          *)

TwinInit ==
    /\ sr \in ComposeRates
    /\ segments \in Pools
    /\ frames = [c \in Invocations |-> IdleFrame]
    /\ num_phrases = 0
    /\ variation_strength = DefaultStrength
    /\ cpc = "off"
    /\ it = 0
    /\ new_audio = <<>>
    /\ result = NoResult
    /\ dspLog = <<>>
    /\ calls = 0
    /\ y = <<>>
    /\ segment_length = MainSegLen
    /\ segPc = "off"
    /\ segResult = NoResult
    /\ listing = {}
    /\ pending = {}
    /\ bpc = "off"
    /\ written = {}
    /\ bLog = <<>>
    /\ bErr = ""
    /\ bFault = NoFault
    /\ audio_data = <<>>
    /\ segIdx = 0
    /\ mpc = "off"
    /\ track = 0
    /\ saved = <<>>
    /\ diag = ""

\* compose(segments, vs1, k) and compose(segments, vs2, k)
TwinCall ==
    /\ frames[1].cpc = "idle"
    /\ \E k \in PhraseCounts, vs1 \in VariationStrengths,
          vs2 \in VariationStrengths :
          frames' = [c \in Invocations |->
                       NewFrame(k, IF c = 1 THEN vs1 ELSE vs2)]
    /\ UNCHANGED <<sr, segments>>

\* both calls take their next step with the same draws
TwinStep ==
    /\ \E c \in Invocations : frames[c].cpc = "loop"
    /\ \E idx \in (IF segments = <<>> THEN {0} ELSE Choices(segments)),
          r \in RandomDraws :
          \E n_steps \in (IF r < Half THEN PitchSteps ELSE {0}),
             rate \in (IF r < Half THEN {100} ELSE StretchRates),
             failAt \in 0 .. 1 :
             frames' = [c \in Invocations |->
                          StepOf(frames[c], segments, idx, r, n_steps, rate,
                                 failAt)]
    /\ UNCHANGED <<sr, segments>>

----------------------------------------------------------------------------
(* Specifications: one per entry point *)

SegNext == SegmentCall /\ UNCHANGED <<compVars, batchVars, mainVars, parVars>>
SpecSeg == SegInit /\ [][SegNext]_vars

ComposeNext ==
    \/ ComposeCall /\ UNCHANGED <<segVars, batchVars, mainVars, parVars>>
    \/ ComposeIter /\ UNCHANGED <<segVars, batchVars, mainVars, parVars>>
    \/ ComposeReturn /\ UNCHANGED <<segVars, batchVars, mainVars, parVars>>
SpecCompose == ComposeInit /\ [][ComposeNext]_vars

BatchNext ==
    \/ GenerateCall /\ UNCHANGED <<segVars, compVars, mainVars, parVars>>
    \/ GenerateIter /\ UNCHANGED <<segVars, compVars, mainVars, parVars>>
    \/ GenerateReturn /\ UNCHANGED <<segVars, compVars, mainVars, parVars>>
SpecBatch == BatchInit /\ [][BatchNext]_vars

MainNext ==
    \/ MainLoad /\ UNCHANGED <<segVars, batchVars, parVars>>
    \/ MainSegment /\ UNCHANGED <<segVars, batchVars, parVars>>
    \/ MainPoolCheck /\ UNCHANGED <<segVars, batchVars, parVars>>
    \/ MainCompose /\ UNCHANGED <<segVars, batchVars, parVars>>
    \/ ComposeIter /\ UNCHANGED <<segVars, batchVars, mainVars, parVars>>
    \/ ComposeReturn /\ UNCHANGED <<segVars, batchVars, mainVars, parVars>>
    \/ MainWrite /\ UNCHANGED <<segVars, batchVars, parVars>>
    \/ MainFinish /\ UNCHANGED <<segVars, batchVars, parVars>>
SpecMain == MainInit /\ [][MainNext]_vars

ParNext ==
    \/ \E c \in Invocations :
          ParCall(c) /\ UNCHANGED <<segVars, batchVars, mainVars, num_phrases,
                                    variation_strength, cpc, it, new_audio,
                                    result, dspLog, calls>>
    \/ \E c \in Invocations :
          ParStep(c) /\ UNCHANGED <<segVars, batchVars, mainVars, num_phrases,
                                    variation_strength, cpc, it, new_audio,
                                    result, dspLog, calls>>
SpecPar == ParInit /\ [][ParNext]_vars

TwinNext ==
    \/ TwinCall /\ UNCHANGED <<segVars, batchVars, mainVars, num_phrases,
                                variation_strength, cpc, it, new_audio,
                                result, dspLog, calls>>
    \/ TwinStep /\ UNCHANGED <<segVars, batchVars, mainVars, num_phrases,
                                variation_strength, cpc, it, new_audio,
                                result, dspLog, calls>>
SpecTwin == TwinInit /\ [][TwinNext]_vars

----------------------------------------------------------------------------
(* Properties of segment_and_score, checked under SpecSeg *)

\* floor(segment_length * sr)
PhraseLen == Floor(segment_length * sr, LDen)

SegCalled == segPc = "done"

\* C1: when phrase_len = floor(L*sr) > 0, every returned phrase has exactly
\* phrase_len samples, the phrases together hold at most len(w) samples, and
\* fewer than phrase_len samples are discarded.
C1_PhraseLengths ==
    (SegCalled /\ PhraseLen > 0) =>
        /\ segResult.ok
        /\ \A k \in 1 .. Len(segResult.val) : Len(segResult.val[k]) = PhraseLen
        /\ SumLen(segResult.val) <= Len(y)
        /\ Len(y) - SumLen(segResult.val) < PhraseLen

C1_Witness ==
    /\ SegCalled
    /\ PhraseLen > 1
    /\ Len(segResult.val) >= 2
    /\ Len(y) > SumLen(segResult.val)

\* C2: when phrase_len = p > 0 there are exactly floor(len(w)/p) phrases and
\* phrase i (from 0) is w[i*p .. (i+1)*p - 1]; a waveform shorter than p gives
\* no phrase; a 3-second waveform cut in 2-second segments gives one phrase.
C2_Windows ==
    (SegCalled /\ PhraseLen > 0) =>
        /\ segResult.ok
        /\ Len(segResult.val) = Len(y) \div PhraseLen
        /\ \A i \in 0 .. Len(segResult.val) - 1 :
              segResult.val[i + 1] = [j \in 1 .. PhraseLen |-> y[i * PhraseLen + j]]
        /\ Len(y) < PhraseLen => segResult.val = <<>>
        /\ (Len(y) = 3 * sr /\ segment_length = 2 * LDen) => Len(segResult.val) = 1

C2_Witness ==
    /\ SegCalled
    /\ Len(y) = 3 * sr
    /\ segment_length = 2 * LDen
    /\ Len(segResult.val) = 1
    /\ y[1] # y[2]

\* C5: segment_and_score fails whenever phrase_len = floor(L*sr) <= 0,
\* for every waveform, instead of returning phrases.
C5_NonPositiveLengthFails ==
    (SegCalled /\ PhraseLen <= 0) => ~segResult.ok

----------------------------------------------------------------------------
(* Properties of compose, checked under SpecCompose *)

Range(f) == {f[x] : x \in DOMAIN f}

ComposeEnded == cpc \in {"returned", "raised"}

\* C3: with a non-empty pool and num_phrases = k >= 1, every iteration picks a
\* phrase of the pool and makes exactly one primitive call, pitch shift or time
\* stretch; a call that returns has run exactly k iterations and returns the
\* concatenation of the k transformed phrases in iteration order.
C3_OneTransformPerIteration ==
    (cpc \in {"loop", "returned", "raised"} /\ segments # <<>>) =>
        /\ Len(dspLog) = it
        /\ it <= (IF num_phrases > 0 THEN num_phrases ELSE 0)
        /\ \A i \in 1 .. Len(dspLog) :
              /\ dspLog[i].op \in {"pitch_shift", "time_stretch"}
              /\ dspLog[i].src \in Range(segments)
        /\ (cpc = "returned" /\ num_phrases >= 1) =>
              /\ it = num_phrases
              /\ result.ok
              /\ result.val =
                    Concatenate([i \in 1 .. num_phrases |->
                                    Dsp(dspLog[i], dspLog[i].src)])

C3_Witness ==
    /\ cpc = "returned"
    /\ num_phrases = 2
    /\ dspLog[1].op = "time_stretch"
    /\ dspLog[2].op = "pitch_shift"
    /\ dspLog[1].src # dspLog[2].src

\* C4: compose on an empty pool ends in an exception (the IndexError of
\* random.choice when an iteration runs), returns no waveform and calls no
\* pitch-shift or time-stretch primitive.
C4_EmptyPoolFails ==
    (cpc \in {"loop", "returned", "raised"} /\ segments = <<>>) =>
        /\ dspLog = <<>>
        /\ new_audio = <<>>
        /\ cpc # "returned"
        /\ ComposeEnded =>
              /\ ~result.ok
              /\ result.val = <<>>
              /\ num_phrases >= 1 => result.exc = "IndexError"

C4_Witness ==
    /\ segments = <<>>
    /\ cpc = "raised"
    /\ num_phrases = 2
    /\ result.exc = "IndexError"

\* C6: the waveform compose returns has as many samples as the k transformed
\* phrases together; a pitch-shifted phrase keeps its length p, a time-stretched
\* one has between round(p/1.05) and round(p/0.95) samples.
C6_OutputLength ==
    (cpc = "returned" /\ segments # <<>>) =>
        /\ Len(result.val) = SumLen(new_audio)
        /\ Len(new_audio) = num_phrases
        /\ \A i \in 1 .. Len(new_audio) :
              LET p == Len(segments[1])
              IN  /\ Len(dspLog[i].src) = p
                  /\ dspLog[i].op = "pitch_shift" => Len(new_audio[i]) = p
                  /\ dspLog[i].op = "time_stretch" =>
                        /\ dspLog[i].arg \in StretchLo .. StretchHi
                        /\ Len(new_audio[i]) >= PyRound(p * 100, StretchHi)
                        /\ Len(new_audio[i]) <= PyRound(p * 100, StretchLo)

C6_Witness ==
    /\ cpc = "returned"
    /\ num_phrases = 2
    /\ dspLog[1].op = "pitch_shift"
    /\ dspLog[1].arg # 0
    /\ dspLog[2].op = "time_stretch"
    /\ Len(new_audio[2]) > Len(segments[1])
    /\ Len(result.val) = 2 * Len(segments[1]) + 1

\* C7: no step of compose, in a call that returns or in one that fails,
\* changes the phrase pool.
C7_PoolNeverMutated == [][segments' = segments]_vars

C7_Witness ==
    /\ calls = 2
    /\ cpc = "raised"
    /\ result.exc = "TransformError"
    /\ Len(segments) = 2
    /\ Len(new_audio) = 1

\* C8: a primitive that fails ends the compose call: the failed call is the
\* last one made, it is made once, no later iteration runs, and the call
\* yields the error and no waveform.
C8_TransformFailureAborts ==
    \A j \in 1 .. Len(dspLog) :
        ~dspLog[j].ok =>
            /\ j = Len(dspLog)
            /\ it = j
            /\ cpc = "raised"
            /\ result = Raised("TransformError")

C8_Witness ==
    /\ cpc = "raised"
    /\ result.exc = "TransformError"
    /\ Len(new_audio) = 1
    /\ Len(dspLog) = 2
    /\ num_phrases >= 2

----------------------------------------------------------------------------
(* Properties of generate, checked under SpecBatch *)

\* the name ends in .wav, in any mix of upper and lower case
EndsInDotWav(f) ==
    /\ Len(f) >= 4
    /\ f[Len(f) - 3] = "."
    /\ f[Len(f) - 2] \in {"w", "W"}
    /\ f[Len(f) - 1] \in {"a", "A"}
    /\ f[Len(f)] \in {"v", "V"}

GeneratedA == <<"g", "e", "n", "e", "r", "a", "t", "e", "d", "_", "a", ".", "w", "a", "v">>
GeneratedB == <<"g", "e", "n", "e", "r", "a", "t", "e", "d", "_", "b", ".", "w", "a", "v">>

\* C9: for every file, the primitive calls are one pitch shift of the loaded
\* waveform by an amount in {-2, -1, 1, 2}, then one time stretch of the pitch
\* shift's output at a rate in [0.9, 1.1]; what is written is the time
\* stretch's output.
C9_ShiftThenStretch ==
    bpc # "off" =>
        /\ \A f \in listing :
              /\ Len(bLog[f]) <= 2
              /\ Len(bLog[f]) >= 1 =>
                    /\ bLog[f][1].op = "pitch_shift"
                    /\ bLog[f][1].arg \in {-2, -1, 1, 2}
                    /\ bLog[f][1].src = Content(f)
              /\ Len(bLog[f]) = 2 =>
                    /\ bLog[f][1].ok
                    /\ bLog[f][2].op = "time_stretch"
                    /\ bLog[f][2].arg \in 90 .. 110
                    /\ bLog[f][2].src = PitchShift(Content(f), sr, bLog[f][1].arg)
        /\ \A w \in written :
              \E f \in listing :
                 /\ w.name = Prefix \o f
                 /\ Len(bLog[f]) = 2
                 /\ bLog[f][2].ok
                 /\ w.data = TimeStretch(bLog[f][2].src, bLog[f][2].arg)

C9_Witness ==
    /\ bpc = "done"
    /\ Cardinality(written) = 2
    /\ \E f \in listing :
          /\ Len(bLog[f]) = 2
          /\ bLog[f][1].arg = -2
          /\ bLog[f][2].arg = 110
          /\ \E w \in written : w.name = Prefix \o f /\ Len(w.data) # Len(Content(f))

\* C10: a generate call in which every step succeeds has written exactly one
\* output per entry whose name ends in .wav in any case, named "generated_"
\* followed by the entry's name, and nothing else; for a.wav and b.wav the
\* outputs are exactly generated_a.wav and generated_b.wav.
C10_OneOutputPerWav ==
    bpc = "done" =>
        LET wavs == {f \in listing : EndsInDotWav(f)}
            names == {w.name : w \in written}
        IN  /\ names = {Prefix \o f : f \in wavs}
            /\ Cardinality(written) = Cardinality(wavs)
            /\ wavs = {NameA, NameB} => names = {GeneratedA, GeneratedB}

C10_Witness ==
    /\ bpc = "done"
    /\ listing = {NameA, NameB, NameTxt}
    /\ {w.name : w \in written} = {GeneratedA, GeneratedB}

----------------------------------------------------------------------------
(* Further properties of compose, checked under SpecCompose *)

\* C12: compose with num_phrases < 1 runs no iteration and fails (the
\* ValueError of np.concatenate on an empty list) for every pool; it returns
\* no waveform.
C12_NonPositiveCountFails ==
    (cpc \in {"loop", "returned", "raised"} /\ num_phrases < 1) =>
        /\ cpc # "returned"
        /\ it = 0
        /\ dspLog = <<>>
        /\ ComposeEnded =>
              /\ ~result.ok
              /\ result.exc = "ValueError"
              /\ result.val = <<>>

C12_Witness ==
    /\ cpc = "raised"
    /\ num_phrases = 0
    /\ Len(segments) = 2
    /\ result.exc = "ValueError"

\* an iteration that picks the phrase at position idx and pitch-shifts it
PickPitch(idx) ==
    /\ ComposeIter
    /\ cpc' = "loop"
    /\ Len(dspLog') = Len(dspLog) + 1
    /\ dspLog'[Len(dspLog')].op = "pitch_shift"
    /\ dspLog'[Len(dspLog')].src = segments[idx]

\* an iteration that picks the phrase at position idx and time-stretches it
PickStretch(idx) ==
    /\ ComposeIter
    /\ cpc' = "loop"
    /\ Len(dspLog') = Len(dspLog) + 1
    /\ dspLog'[Len(dspLog')].op = "time_stretch"
    /\ dspLog'[Len(dspLog')].src = segments[idx]

\* C14: phrases are drawn with replacement: in every iteration of a call on
\* a pool of one phrase or more, whatever the earlier iterations chose, every
\* phrase of the pool (the one just used included) can be chosen and either
\* branch can be taken; the pool never runs out, so the only failure is a
\* failing primitive.
C14_WithReplacement ==
    /\ (cpc = "loop" /\ it < num_phrases /\ segments # <<>>) =>
          \A idx \in 1 .. Len(segments) :
             /\ ENABLED PickPitch(idx)
             /\ ENABLED PickStretch(idx)
    /\ (cpc = "raised" /\ it > 1) => result.exc = "TransformError"
    /\ (cpc = "loop" /\ segments # <<>>) => Len(new_audio) = it

C14_Witness ==
    /\ cpc = "returned"
    /\ num_phrases = 2
    /\ Len(segments) = 2
    /\ segments[1] # segments[2]
    /\ dspLog[1].src = dspLog[2].src
    /\ dspLog[1].op = "pitch_shift"
    /\ dspLog[2].op = "time_stretch"

----------------------------------------------------------------------------
(* Further properties of generate, checked under SpecBatch *)

\* C15: once the loader, a primitive or the writer has failed for a file, the
\* generate call has ended in that exception: nothing was written for the
\* file, the failed step is the last one made for it, and neither another
\* iteration nor a normal return can follow.
C15_FailurePropagates ==
    bFault.stage # "none" =>
        /\ bpc = "raised"
        /\ bErr \in {"LoadError", "TransformError", "WriteError"}
        /\ bFault.file \in listing \ pending
        /\ \A w \in written : w.name # Prefix \o bFault.file
        /\ bFault.stage = "load" => bLog[bFault.file] = <<>>
        /\ bFault.stage \in {"pitch_shift", "time_stretch"} =>
              /\ ~bLog[bFault.file][Len(bLog[bFault.file])].ok
              /\ bLog[bFault.file][Len(bLog[bFault.file])].op = bFault.stage
        /\ bFault.stage = "write" => Len(bLog[bFault.file]) = 2
        /\ ~ENABLED GenerateIter
        /\ ~ENABLED GenerateReturn

C15_Witness ==
    /\ bFault.stage = "write"
    /\ bpc = "raised"
    /\ Cardinality(written) = 1
    /\ \E f \in pending : EndsInDotWav(f)

----------------------------------------------------------------------------
(* Properties of main, checked under SpecMain *)

\* the full windows of p samples of one waveform, in order
WindowsOf(w, p) ==
    [i \in 1 .. (Len(w) \div p) |-> SubSeq(w, (i - 1) * p + 1, i * p)]

\* the phrases of all loaded waveforms, in loading order
RECURSIVE PoolOf(_, _)
PoolOf(loaded, p) ==
    IF loaded = <<>> THEN <<>>
    ELSE WindowsOf(Head(loaded), p) \o PoolOf(Tail(loaded), p)

\* C11: a run whose inputs give no phrase (no input file included) ends
\* early with a diagnostic: compose is never called and no track is written.
C11_EmptyPoolEndsEarly ==
    /\ (mpc \in {"early", "tracks", "composing", "done"}
           /\ PoolOf(audio_data, 2 * sr) = <<>>) =>
          /\ mpc = "early"
          /\ diag \in {"No input audio found", "No usable segments found"}
          /\ calls = 0
          /\ cpc = "idle"
          /\ dspLog = <<>>
          /\ saved = <<>>
    /\ (calls >= 1 \/ saved # <<>>) => PoolOf(audio_data, 2 * sr) # <<>>

C11_Witness ==
    /\ mpc = "early"
    /\ Len(audio_data) = 2
    /\ segIdx = 2
    /\ diag = "No usable segments found"
    /\ calls = 0

\* C16: every loaded waveform is segmented into the pool before the first
\* compose call and the pool stays as it is; track i is composed by the i-th
\* compose call and written, under its own name, before the next call is
\* made; a run that reaches its end has written exactly 6 tracks.
C16_DriverOrder ==
    /\ calls >= 1 =>
          /\ segIdx = Len(audio_data)
          /\ segments = PoolOf(audio_data, 2 * sr)
    /\ Len(saved) = track
    /\ track <= 6
    /\ \A j \in 1 .. Len(saved) :
          /\ saved[j].name = <<"style_composed_", j, ".wav">>
          /\ saved[j].call = j
    /\ \A j, k \in 1 .. Len(saved) : j # k => saved[j].name # saved[k].name
    /\ calls <= Len(saved) + 1
    /\ mpc \in {"tracks", "done"} => calls = Len(saved)
    /\ mpc = "composing" => calls = Len(saved) + 1
    /\ mpc = "done" => (Len(saved) = 6 /\ calls = 6)

C16_Witness ==
    /\ mpc = "done"
    /\ Len(saved) = 6
    /\ Len(audio_data) = 2
    /\ Len(segments) = 2
    /\ Len(audio_data[1]) < 2 * sr

----------------------------------------------------------------------------
(* Properties of compose calls side by side, checked under SpecPar *)

\* the phrases call f has transformed so far, as its own calls produced them
OwnPhrases(f) ==
    [i \in 1 .. Len(f.new_audio) |-> Dsp(f.dspLog[i], f.dspLog[i].src)]

ParCallsOk ==
    \A c \in Invocations :
        LET f == frames[c]
        IN  /\ Len(f.new_audio) <= Len(f.dspLog)
            /\ f.new_audio = OwnPhrases(f)
            /\ \A i \in 1 .. Len(f.dspLog) : f.dspLog[i].src \in Range(segments)
            /\ f.cpc = "returned" =>
                  /\ f.it = f.num_phrases
                  /\ Len(f.new_audio) = f.num_phrases
                  /\ f.result.ok
                  /\ f.result.val = Concatenate(OwnPhrases(f))

\* C13: under every interleaving of the steps of two compose calls on one
\* pool, each call that returns has made exactly its own num_phrases
\* iterations and returns the concatenation of the phrases it transformed
\* itself, each taken from the pool, and no step changes the pool.
C13_ParallelCallsIndependent ==
    [][ParCallsOk' /\ segments' = segments]_vars

C13_Witness ==
    /\ frames[1].cpc = "returned"
    /\ frames[1].num_phrases = 2
    /\ frames[2].cpc = "loop"
    /\ frames[2].num_phrases = 2
    /\ frames[2].it = 1
    /\ frames[1].dspLog[1].op # frames[2].dspLog[1].op
    /\ frames[1].dspLog[1].src # frames[2].dspLog[1].src

----------------------------------------------------------------------------
(* Properties of the twin calls, checked under SpecTwin *)

WithoutStrength(f) == [f EXCEPT !.variation_strength = 0]

\* C17: two compose calls on the same pool with the same num_phrases and the
\* same random draws, whatever their variation_strength values, choose the
\* same phrases, branches and amounts and end the same way with the same
\* waveform.
C17_StrengthIgnored ==
    /\ frames[1].dspLog = frames[2].dspLog
    /\ frames[1].new_audio = frames[2].new_audio
    /\ frames[1].result = frames[2].result
    /\ WithoutStrength(frames[1]) = WithoutStrength(frames[2])

C17_Witness ==
    /\ frames[1].variation_strength # frames[2].variation_strength
    /\ frames[1].cpc = "returned"
    /\ frames[2].cpc = "returned"
    /\ frames[1].num_phrases = 2
    /\ frames[1].dspLog[1].op = "pitch_shift"
    /\ frames[1].dspLog[1].arg # 0
    /\ frames[1].dspLog[2].op = "time_stretch"
    /\ frames[1].dspLog[2].arg # 100

====
